---------------------------- MODULE Spec2Model ----------------------------
(***************************************************************************)
(* Grid reconstruction and interactive crop refinement.                    *)
(*                                                                         *)
(*   CropAdjuster.tsx   the box editor (move, resize, delete, reset,       *)
(*                      dimension sync, zoom)                              *)
(*   imageProcessor.ts  organizeBoxes (row/column clustering) and          *)
(*                      generateSlices (the slice pipeline)                *)
(*   App.tsx            the workflow (upload, analyzing, adjusting,        *)
(*                      processing, result) around analyzeGrid, the        *)
(*                      editor and generateSlices                          *)
(*                                                                         *)
(* Numbers.  The code computes in IEEE doubles.  The model computes in     *)
(* exact arithmetic: a normalized coordinate v is stored as the integer    *)
(* v * Res, so that the halvings of handleSyncSize stay exact for as many  *)
(* operations as a run of the editor has.  Rounding of doubles is not      *)
(* modelled.  The zoom factor is stored in thousandths.                    *)
(*                                                                         *)
(* Arrays.  JavaScript arrays are 0-based and may hold empty slots; the    *)
(* model keeps 0-based indices in the state and stores an array as a       *)
(* sequence whose elements are boxes, Hole (an empty slot) or Undefined.   *)
(***************************************************************************)
EXTENDS Integers, Sequences, FiniteSets, TLC

VARIABLES
    \* ---- CropAdjuster (React state of one mounted editor) ----
    initialBoxes,       \* prop initialBoxes: the detected boxes
    boxes,              \* useState boxes: the working set
    activeBoxIndex,     \* index being dragged, or NoIndex
    selectedBoxIndex,   \* persistent selection, or NoIndex
    interactionMode,    \* "move" | "resize" | "null"
    resizeHandle,       \* "nw" | "ne" | "sw" | "se" | "null"
    startPos,           \* pointer position at gesture start
    startBoxState,      \* snapshot of the box at gesture start, or NullBox
    scale,              \* zoom factor, in thousandths
    mounted,            \* FALSE once a render has thrown (React unmounts the tree)
    thrown,             \* TRUE once an operation has thrown
    steps,              \* number of editor events handled so far
    \* ---- organizeBoxes (one call) ----
    orgBoxes,           \* argument boxes
    orgImage,           \* arguments width, height (pixels)
    orgResult,          \* return value, NotCalled before the call
    \* ---- generateSlices (one run) ----
    run,                \* the locals of the async function, its position (pc),
                        \* its settlement and the enhancement calls it has made
    \* ---- App (React state, and the async calls it has started) ----
    file,               \* useState file: a file id, or NoFile
    step,               \* "upload" | "analyzing" | "adjusting" | "processing" | "result"
    analyzedData,       \* useState analyzedData, or NullData
    slices,             \* useState slices
    gridDims,           \* useState gridDims
    error,              \* useState error: a message, or "null"
    analyses,           \* the calls of analyzeGrid, in the order they were started
    runs                \* the calls of generateSlices, in the order they were started

editorVars == <<initialBoxes, boxes, activeBoxIndex, selectedBoxIndex,
                interactionMode, resizeHandle, startPos, startBoxState,
                scale, mounted, thrown, steps>>

organizeVars == <<orgBoxes, orgImage, orgResult>>

appVars == <<file, step, analyzedData, slices, gridDims, error, analyses, runs>>

vars == <<editorVars, organizeVars, run, appVars>>

-----------------------------------------------------------------------------
(* Bounds of the model *)

\* Editor events handled in one run of Spec.
MaxSteps == 4

\* Pointer events handled in one run of SpecMove.
MaxMoveSteps == 8

\* Boxes confirmed for one run of generateSlices.
MaxConfirmed == 2

\* Files selected and slicing runs started in one run of SpecApp.
MaxFiles == 2
MaxRuns == 2

\* organizeBoxes: uniform grids of up to MaxGridRows x MaxGridCols tiles, given in
\* every order when they have at most MaxPermLen tiles; other inputs of up to
\* MaxOrgLen boxes.
MaxGridRows == 3
MaxGridCols == 3
MaxPermLen == 4
MaxOrgLen == 4

\* Stored units per normalized unit: every halving stays exact.
Res == 2 ^ (MaxSteps + 1)

-----------------------------------------------------------------------------
(* Values *)

NoIndex == -1

NullBox == [tag |-> "null"]
Hole == [tag |-> "hole"]
Undefined == [tag |-> "undefined"]

CanvasMax == 1000 * Res
MinSize == 20 * Res

Box(x1, y1, x2, y2) ==
    [xmin |-> x1 * Res, ymin |-> y1 * Res, xmax |-> x2 * Res, ymax |-> y2 * Res]

Max(a, b) == IF a >= b THEN a ELSE b
Min(a, b) == IF a <= b THEN a ELSE b

\* boxes[i] of the code, i 0-based; undefined beyond the length and for a hole
At(arr, i) ==
    IF i >= 0 /\ i < Len(arr) /\ arr[i + 1] # Hole THEN arr[i + 1] ELSE Undefined

\* The boxes the JSX renders: boxes.map skips empty slots
RenderedIndices == {i \in 0 .. Len(boxes) - 1 : boxes[i + 1] # Hole}

\* The four corner handles the JSX renders on a selected or active box
RenderedHandles == {"nw", "ne", "sw", "se"}

Includes(handle, c) ==
    CASE c = "w" -> handle \in {"w", "nw", "sw"}
      [] c = "e" -> handle \in {"e", "ne", "se"}
      [] c = "n" -> handle \in {"n", "nw", "ne"}
      [] c = "s" -> handle \in {"s", "sw", "se"}

\* Detection results the editor is opened on: boxes of the data model
\* (0 <= xmin < xmax <= 1000, 0 <= ymin < ymax <= 1000), of any size.
DetectedLayouts ==
    { << Box(0, 0, 300, 300), Box(350, 0, 650, 300), Box(700, 0, 1000, 300) >>,
      << Box(100, 100, 500, 400), Box(900, 600, 1000, 700), Box(990, 0, 1000, 10) >>,
      << Box(0, 0, 480, 480), Box(520, 520, 1000, 1000) >> }

\* getBoundingClientRect() of the image container, in CSS pixels
Rect == [width |-> 500, height |-> 250]

\* clientX / clientY of the pointer events
PointerPositions ==
    { [x |-> 0, y |-> 0], [x |-> 50, y |-> 25], [x |-> 500, y |-> 250],
      [x |-> 500, y |-> 0] }

-----------------------------------------------------------------------------
(* CropAdjuster *)

\* updateBox: newBoxes = [...prev] (empty slots become undefined), then
\* newBoxes[index] = {...newBoxes[index], ...updates}; writing past the end
\* leaves empty slots in between
UpdateBox(prev, index, updates) ==
    LET dense == [k \in 1 .. Len(prev) |->
                    IF prev[k] = Hole THEN Undefined ELSE prev[k]]
    IN  IF index < Len(prev)
        THEN [dense EXCEPT ![index + 1] = updates]
        ELSE dense \o [k \in 1 .. (index - Len(prev)) |-> Hole] \o << updates >>

\* The render after a state change: boxes.map calls getBoxMetrics(box), which
\* reads box.xmax and throws on an undefined element
RenderThrows(arr) == \E k \in 1 .. Len(arr) : arr[k] = Undefined

\* Pixel delta to normalized delta: (deltaPixels / rect.size) * 1000
ToNormalized(deltaPixels, size) == (deltaPixels * 1000 * Res) \div size

\* MoveResult with the far corner taken from the unclamped translation
MoveResultUnclampedMax(box, deltaX, deltaY) ==
    LET newXmin == Max(0, Min(CanvasMax - (box.xmax - box.xmin), box.xmin + deltaX))
        newYmin == Max(0, Min(CanvasMax - (box.ymax - box.ymin), box.ymin + deltaY))
    IN  [xmin |-> newXmin,
         ymin |-> newYmin,
         xmax |-> box.xmax + deltaX,
         ymax |-> box.ymax + deltaY]

\* MoveResult without the lower clamp Math.max(0, ...)
MoveResultNoLowerClamp(box, deltaX, deltaY) ==
    LET newXmin == Min(CanvasMax - (box.xmax - box.xmin), box.xmin + deltaX)
        newYmin == Min(CanvasMax - (box.ymax - box.ymin), box.ymin + deltaY)
    IN  [xmin |-> newXmin,
         ymin |-> newYmin,
         xmax |-> newXmin + (box.xmax - box.xmin),
         ymax |-> newYmin + (box.ymax - box.ymin)]

MoveResult(box, deltaX, deltaY) ==
    LET newXmin == Max(0, Min(CanvasMax - (box.xmax - box.xmin), box.xmin + deltaX))
        newYmin == Max(0, Min(CanvasMax - (box.ymax - box.ymin), box.ymin + deltaY))
    IN  [xmin |-> newXmin,
         ymin |-> newYmin,
         xmax |-> newXmin + (box.xmax - box.xmin),
         ymax |-> newYmin + (box.ymax - box.ymin)]

\* ResizeResult with the edges the handle does not name translated by the delta
ResizeResultDragsFarEdges(box, handle, deltaX, deltaY) ==
    LET xmin1 == IF Includes(handle, "w")
                 THEN Min(box.xmax - MinSize, Max(0, box.xmin + deltaX))
                 ELSE box.xmin + deltaX
        xmax1 == IF Includes(handle, "e")
                 THEN Max(xmin1 + MinSize, Min(CanvasMax, box.xmax + deltaX))
                 ELSE box.xmax + deltaX
        ymin1 == IF Includes(handle, "n")
                 THEN Min(box.ymax - MinSize, Max(0, box.ymin + deltaY))
                 ELSE box.ymin + deltaY
        ymax1 == IF Includes(handle, "s")
                 THEN Max(ymin1 + MinSize, Min(CanvasMax, box.ymax + deltaY))
                 ELSE box.ymax + deltaY
    IN  [xmin |-> xmin1, ymin |-> ymin1, xmax |-> xmax1, ymax |-> ymax1]

ResizeResult(box, handle, deltaX, deltaY) ==
    LET xmin1 == IF Includes(handle, "w")
                 THEN Min(box.xmax - MinSize, Max(0, box.xmin + deltaX))
                 ELSE box.xmin
        xmax1 == IF Includes(handle, "e")
                 THEN Max(xmin1 + MinSize, Min(CanvasMax, box.xmax + deltaX))
                 ELSE box.xmax
        ymin1 == IF Includes(handle, "n")
                 THEN Min(box.ymax - MinSize, Max(0, box.ymin + deltaY))
                 ELSE box.ymin
        ymax1 == IF Includes(handle, "s")
                 THEN Max(ymin1 + MinSize, Min(CanvasMax, box.ymax + deltaY))
                 ELSE box.ymax
    IN  [xmin |-> xmin1, ymin |-> ymin1, xmax |-> xmax1, ymax |-> ymax1]

HandleResizeStart(index, handle, pos) ==
    /\ mounted
    /\ index \in RenderedIndices
    /\ selectedBoxIndex = index \/ activeBoxIndex = index
    /\ handle \in RenderedHandles
    /\ activeBoxIndex' = index
    /\ selectedBoxIndex' = index
    /\ interactionMode' = "resize"
    /\ resizeHandle' = handle
    /\ startPos' = pos
    /\ startBoxState' = At(boxes, index)
    /\ UNCHANGED <<initialBoxes, boxes, scale, mounted, thrown>>

HandleMoveStart(index, pos) ==
    /\ mounted
    /\ index \in RenderedIndices
    /\ activeBoxIndex' = index
    /\ selectedBoxIndex' = index
    /\ interactionMode' = "move"
    /\ resizeHandle' = "null"
    /\ startPos' = pos
    /\ startBoxState' = At(boxes, index)
    /\ UNCHANGED <<initialBoxes, boxes, scale, mounted, thrown>>

\* handlePointerMove applying the delta to the box as the last pointer-move
\* left it instead of the snapshot
HandlePointerMoveFromCurrent(pos) ==
    /\ mounted
    /\ LET deltaX == ToNormalized(pos.x - startPos.x, Rect.width)
           deltaY == ToNormalized(pos.y - startPos.y, Rect.height)
           box == IF At(boxes, activeBoxIndex) = Undefined
                  THEN startBoxState
                  ELSE At(boxes, activeBoxIndex)
           newBoxes ==
               IF interactionMode = "move"
               THEN UpdateBox(boxes, activeBoxIndex, MoveResult(box, deltaX, deltaY))
               ELSE UpdateBox(boxes, activeBoxIndex,
                              ResizeResult(box, resizeHandle, deltaX, deltaY))
       IN  IF activeBoxIndex = NoIndex \/ startBoxState = NullBox
           THEN UNCHANGED <<boxes, mounted, thrown>>
           ELSE IF interactionMode = "move"
                   \/ (interactionMode = "resize" /\ resizeHandle # "null")
           THEN /\ boxes' = newBoxes
                /\ mounted' = ~RenderThrows(newBoxes)
                /\ thrown' = (thrown \/ RenderThrows(newBoxes))
           ELSE UNCHANGED <<boxes, mounted, thrown>>
    /\ UNCHANGED <<initialBoxes, activeBoxIndex, selectedBoxIndex, interactionMode,
                   resizeHandle, startPos, startBoxState, scale>>

HandlePointerMove(pos) ==
    /\ mounted
    /\ LET deltaX == ToNormalized(pos.x - startPos.x, Rect.width)
           deltaY == ToNormalized(pos.y - startPos.y, Rect.height)
           box == startBoxState
           newBoxes ==
               IF interactionMode = "move"
               THEN UpdateBox(boxes, activeBoxIndex, MoveResult(box, deltaX, deltaY))
               ELSE UpdateBox(boxes, activeBoxIndex,
                              ResizeResult(box, resizeHandle, deltaX, deltaY))
       IN  IF activeBoxIndex = NoIndex \/ startBoxState = NullBox
           THEN UNCHANGED <<boxes, mounted, thrown>>
           ELSE IF interactionMode = "move"
                   \/ (interactionMode = "resize" /\ resizeHandle # "null")
           THEN /\ boxes' = newBoxes
                /\ mounted' = ~RenderThrows(newBoxes)
                /\ thrown' = (thrown \/ RenderThrows(newBoxes))
           ELSE UNCHANGED <<boxes, mounted, thrown>>
    /\ UNCHANGED <<initialBoxes, activeBoxIndex, selectedBoxIndex, interactionMode,
                   resizeHandle, startPos, startBoxState, scale>>

\* handlePointerUp that also clears the selection
HandlePointerUpClearsSelection ==
    /\ mounted
    /\ activeBoxIndex' = NoIndex
    /\ selectedBoxIndex' = NoIndex
    /\ interactionMode' = "null"
    /\ resizeHandle' = "null"
    /\ UNCHANGED <<initialBoxes, boxes, startPos, startBoxState, scale, mounted, thrown>>

\* handlePointerUp without setResizeHandle(null)
HandlePointerUpKeepsHandle ==
    /\ mounted
    /\ activeBoxIndex' = NoIndex
    /\ interactionMode' = "null"
    /\ UNCHANGED <<initialBoxes, boxes, selectedBoxIndex, resizeHandle, startPos,
                   startBoxState, scale, mounted, thrown>>

HandlePointerUp ==
    /\ mounted
    /\ activeBoxIndex' = NoIndex
    /\ interactionMode' = "null"
    /\ resizeHandle' = "null"
    /\ UNCHANGED <<initialBoxes, boxes, selectedBoxIndex, startPos, startBoxState,
                   scale, mounted, thrown>>

\* DeleteResult with the filter test off by one (i !== index - 1)
DeleteResultOffByOne(prev, index) ==
    LET keep == {k \in 1 .. Len(prev) : k # index /\ prev[k] # Hole}
        F[k \in 0 .. Len(prev)] ==
            IF k = 0 THEN << >>
            ELSE IF k \in keep THEN Append(F[k - 1], prev[k]) ELSE F[k - 1]
    IN  F[Len(prev)]

\* prev.filter((_, i) => i !== index): filter also drops empty slots
DeleteResult(prev, index) ==
    LET keep == {k \in 1 .. Len(prev) : k # index + 1 /\ prev[k] # Hole}
        F[k \in 0 .. Len(prev)] ==
            IF k = 0 THEN << >>
            ELSE IF k \in keep THEN Append(F[k - 1], prev[k]) ELSE F[k - 1]
    IN  F[Len(prev)]

HandleDeleteBox(index) ==
    /\ mounted
    /\ index \in RenderedIndices
    /\ boxes' = DeleteResult(boxes, index)
    /\ selectedBoxIndex' = IF selectedBoxIndex = index THEN NoIndex ELSE selectedBoxIndex
    /\ UNCHANGED <<initialBoxes, activeBoxIndex, interactionMode, resizeHandle,
                   startPos, startBoxState, scale, mounted, thrown>>

\* handleReset without setScale(1)
HandleResetKeepsZoom ==
    /\ mounted
    /\ boxes' = initialBoxes
    /\ selectedBoxIndex' = NoIndex
    /\ UNCHANGED <<initialBoxes, activeBoxIndex, interactionMode, resizeHandle,
                   startPos, startBoxState, scale, mounted, thrown>>

HandleReset ==
    /\ mounted
    /\ boxes' = initialBoxes
    /\ selectedBoxIndex' = NoIndex
    /\ scale' = 1000
    /\ UNCHANGED <<initialBoxes, activeBoxIndex, interactionMode, resizeHandle,
                   startPos, startBoxState, mounted, thrown>>

\* SyncBox anchored at the target's top-left corner instead of its centre
SyncBoxFromCorner(box, targetW, targetH) ==
    [xmin |-> box.xmin, ymin |-> box.ymin,
     xmax |-> box.xmin + targetW, ymax |-> box.ymin + targetH]

\* SyncBox cutting the far edges at the canvas instead of shifting the box
SyncBoxClampFarEdge(box, targetW, targetH) ==
    LET cx == (box.xmin + box.xmax) \div 2
        cy == (box.ymin + box.ymax) \div 2
    IN  [xmin |-> Max(0, cx - (targetW \div 2)),
         ymin |-> Max(0, cy - (targetH \div 2)),
         xmax |-> Min(CanvasMax, cx + (targetW \div 2)),
         ymax |-> Min(CanvasMax, cy + (targetH \div 2))]

\* One target box of handleSyncSize: re-centre at the source's size, then the
\* "shift logic" of lines 172-200, statement by statement
SyncBox(box, targetW, targetH) ==
    LET cx == (box.xmin + box.xmax) \div 2
        cy == (box.ymin + box.ymax) \div 2
        xmin0 == cx - (targetW \div 2)
        xmax0 == cx + (targetW \div 2)
        ymin0 == cy - (targetH \div 2)
        ymax0 == cy + (targetH \div 2)
        \* Check Left
        xmin1 == IF xmin0 < 0 THEN xmin0 + (0 - xmin0) ELSE xmin0
        xmax1 == IF xmin0 < 0 THEN xmax0 + (0 - xmin0) ELSE xmax0
        \* Check Right
        diffX == xmax1 - CanvasMax
        xmin2 == IF xmax1 > CanvasMax
                 THEN (IF xmin1 + diffX < 0 THEN 0 ELSE xmin1 + diffX)
                 ELSE xmin1
        xmax2 == IF xmax1 > CanvasMax THEN xmax1 + diffX ELSE xmax1
        \* Check Top
        ymin1 == IF ymin0 < 0 THEN ymin0 + (0 - ymin0) ELSE ymin0
        ymax1 == IF ymin0 < 0 THEN ymax0 + (0 - ymin0) ELSE ymax0
        \* Check Bottom
        diffY == ymax1 - CanvasMax
        ymin2 == IF ymax1 > CanvasMax
                 THEN (IF ymin1 + diffY < 0 THEN 0 ELSE ymin1 + diffY)
                 ELSE ymin1
        ymax2 == IF ymax1 > CanvasMax THEN ymax1 + diffY ELSE ymax1
    IN  [xmin |-> xmin2, ymin |-> ymin2, xmax |-> xmax2, ymax |-> ymax2]

\* SyncResult with every target box recomputed a second time
SyncResultAppliedTwice(arr, sourceIndex) ==
    LET sourceBox == At(arr, sourceIndex)
        targetW == sourceBox.xmax - sourceBox.xmin
        targetH == sourceBox.ymax - sourceBox.ymin
    IN  [k \in 1 .. Len(arr) |->
            IF k = sourceIndex + 1 \/ arr[k] = Hole
            THEN arr[k]
            ELSE SyncBox(SyncBox(arr[k], targetW, targetH), targetW, targetH)]

\* boxes.map(...) of handleSyncSize: the source and the empty slots are kept
SyncResult(arr, sourceIndex) ==
    LET sourceBox == At(arr, sourceIndex)
        targetW == sourceBox.xmax - sourceBox.xmin
        targetH == sourceBox.ymax - sourceBox.ymin
    IN  [k \in 1 .. Len(arr) |->
            IF k = sourceIndex + 1 \/ arr[k] = Hole
            THEN arr[k]
            ELSE SyncBox(arr[k], targetW, targetH)]

\* sourceBox = boxes[selectedBoxIndex]; sourceBox.xmax throws a TypeError when
\* the selected index designates no element
HandleSyncSize ==
    /\ mounted
    /\ IF selectedBoxIndex = NoIndex
       THEN UNCHANGED <<boxes, thrown>>
       ELSE IF At(boxes, selectedBoxIndex) = Undefined
       THEN thrown' = TRUE /\ UNCHANGED boxes
       ELSE boxes' = SyncResult(boxes, selectedBoxIndex) /\ UNCHANGED thrown
    /\ UNCHANGED <<initialBoxes, activeBoxIndex, selectedBoxIndex, interactionMode,
                   resizeHandle, startPos, startBoxState, scale, mounted>>

ZoomMin == 500
ZoomMax == 4000
ZoomStep == 250

\* handleZoom without the clamp to [0.5, 4]
HandleZoomUnclamped(direction) ==
    /\ mounted
    /\ LET delta == IF direction = "in" THEN ZoomStep ELSE -ZoomStep
       IN  scale' = scale + delta
    /\ UNCHANGED <<initialBoxes, boxes, activeBoxIndex, selectedBoxIndex,
                   interactionMode, resizeHandle, startPos, startBoxState,
                   mounted, thrown>>

HandleZoom(direction) ==
    /\ mounted
    /\ LET delta == IF direction = "in" THEN ZoomStep ELSE -ZoomStep
       IN  scale' = Min(Max(ZoomMin, scale + delta), ZoomMax)
    /\ UNCHANGED <<initialBoxes, boxes, activeBoxIndex, selectedBoxIndex,
                   interactionMode, resizeHandle, startPos, startBoxState,
                   mounted, thrown>>

\* deltaY of the wheel events
WheelDeltas == {-100, 100, 2000}

\* delta = e.deltaY * -0.002, in thousandths: e.deltaY * -2
HandleWheel(ctrlKey, deltaY) ==
    /\ mounted
    /\ IF ctrlKey
       THEN scale' = Min(Max(ZoomMin, scale + deltaY * (-2)), ZoomMax)
       ELSE UNCHANGED scale
    /\ UNCHANGED <<initialBoxes, boxes, activeBoxIndex, selectedBoxIndex,
                   interactionMode, resizeHandle, startPos, startBoxState,
                   mounted, thrown>>


-----------------------------------------------------------------------------
(* imageProcessor.ts: organizeBoxes *)

\* A box with its pixel geometry.  Pixel lengths are stored in units of
\* 1 / (2000 * Res) pixel, in which every quantity of organizeBoxes is an integer:
\*   y = (ymin / 1000) * height         cy = ((ymin + ymax) / 2000) * height
PixelBox(b, width, height) ==
    [xmin |-> b.xmin, ymin |-> b.ymin, xmax |-> b.xmax, ymax |-> b.ymax,
     y |-> 2 * b.ymin * height,
     x |-> 2 * b.xmin * width,
     w |-> 2 * (b.xmax - b.xmin) * width,
     h |-> 2 * (b.ymax - b.ymin) * height,
     cy |-> (b.ymin + b.ymax) * height,
     cx |-> (b.xmin + b.xmax) * width]

Abs(n) == IF n < 0 THEN -n ELSE n

\* Array.prototype.sort with the comparator (a, b) => a[key] - b[key]: a stable
\* sort, ascending (insertion after the last element that is not greater)
InsertSorted(sorted, e, key) ==
    LET n == Cardinality({k \in 1 .. Len(sorted) : sorted[k][key] <= e[key]})
    IN  SubSeq(sorted, 1, n) \o << e >> \o SubSeq(sorted, n + 1, Len(sorted))

SortBy(arr, key) ==
    LET F[k \in 0 .. Len(arr)] ==
            IF k = 0 THEN << >> ELSE InsertSorted(F[k - 1], arr[k], key)
    IN  F[Len(arr)]

\* pixelBoxes.sort((a, b) => a.cy - b.cy)
SortByCy(pixelBoxes) == SortBy(pixelBoxes, "cy")

\* The row left in the order of the cy sort
SortByCxOmitted(rowItems) == rowItems

\* rowItems.sort((a, b) => a.cx - b.cx)
SortByCx(rowItems) == SortBy(rowItems, "cx")

\* The threshold taken as two box heights instead of half of one
JoinsRowWide(box, currentRowY) == Abs(box.cy - currentRowY) < 2 * box.h

\* Math.abs(box.cy - currentRowY) < (box.h * 0.5)
JoinsRow(box, currentRowY) == 2 * Abs(box.cy - currentRowY) < box.h

\* ClusterRows without the final rows.push(currentRow)
ClusterRowsForgetLast(pixelBoxes) ==
    LET n == Len(pixelBoxes)
        Loop[i \in 1 .. n] ==
            IF i = 1
            THEN [rows |-> << >>, currentRow |-> << pixelBoxes[1] >>,
                  currentRowY |-> pixelBoxes[1].cy]
            ELSE LET st == Loop[i - 1]
                     box == pixelBoxes[i]
                 IN  IF JoinsRow(box, st.currentRowY)
                     THEN [st EXCEPT !.currentRow = Append(@, box)]
                     ELSE [rows |-> Append(st.rows, st.currentRow),
                           currentRow |-> << box >>,
                           currentRowY |-> box.cy]
    IN  IF n > 0 THEN Loop[n].rows ELSE << >>

\* ClusterRows with the anchor moved to the cy of every box that joins the row
ClusterRowsMovingAnchor(pixelBoxes) ==
    LET n == Len(pixelBoxes)
        Loop[i \in 1 .. n] ==
            IF i = 1
            THEN [rows |-> << >>, currentRow |-> << pixelBoxes[1] >>,
                  currentRowY |-> pixelBoxes[1].cy]
            ELSE LET st == Loop[i - 1]
                     box == pixelBoxes[i]
                 IN  IF JoinsRow(box, st.currentRowY)
                     THEN [st EXCEPT !.currentRow = Append(@, box),
                                     !.currentRowY = box.cy]
                     ELSE [rows |-> Append(st.rows, st.currentRow),
                           currentRow |-> << box >>,
                           currentRowY |-> box.cy]
    IN  IF n > 0 THEN Append(Loop[n].rows, Loop[n].currentRow) ELSE << >>

\* The loop of lines 198-213 over the cy-sorted boxes: the closed rows, then
\* the open row pushed last
ClusterRows(pixelBoxes) ==
    LET n == Len(pixelBoxes)
        Loop[i \in 1 .. n] ==
            IF i = 1
            THEN [rows |-> << >>, currentRow |-> << pixelBoxes[1] >>,
                  currentRowY |-> pixelBoxes[1].cy]
            ELSE LET st == Loop[i - 1]
                     box == pixelBoxes[i]
                 IN  IF JoinsRow(box, st.currentRowY)
                     THEN [st EXCEPT !.currentRow = Append(@, box)]
                     ELSE [rows |-> Append(st.rows, st.currentRow),
                           currentRow |-> << box >>,
                           currentRowY |-> box.cy]
    IN  IF n > 0 THEN Append(Loop[n].rows, Loop[n].currentRow) ELSE << >>

\* rows.forEach(...): each row sorted by cx, its boxes pushed with row and col
FlattenRows(rows) ==
    LET F[r \in 0 .. Len(rows)] ==
            IF r = 0 THEN << >>
            ELSE LET rowItems == SortByCx(rows[r])
                 IN  F[r - 1] \o [c \in 1 .. Len(rowItems) |->
                                     [box |-> rowItems[c], row |-> r - 1, col |-> c - 1]]
    IN  F[Len(rows)]

\* maxCols taken from the last row only
MaxRowLengthOfLastRow(rows) == IF Len(rows) = 0 THEN 0 ELSE Len(rows[Len(rows)])

MaxRowLength(rows) ==
    LET F[r \in 0 .. Len(rows)] ==
            IF r = 0 THEN 0
            ELSE IF Len(rows[r]) > F[r - 1] THEN Len(rows[r]) ELSE F[r - 1]
    IN  F[Len(rows)]

OrganizeBoxes(bs, width, height) ==
    LET pixelBoxes == SortByCy([k \in 1 .. Len(bs) |-> PixelBox(bs[k], width, height)])
        rows == ClusterRows(pixelBoxes)
    IN  [sortedBoxes |-> FlattenRows(rows),
         rows |-> Len(rows),
         cols |-> MaxRowLength(rows)]

\* ---- inputs of organizeBoxes ----

\* Uniform grids: tiles of one size, constant gutters, in normalized units
GridGeometries ==
    { [tileW |-> 320, tileH |-> 320, gapX |-> 20, gapY |-> 20, left |-> 0, top |-> 0],
      [tileW |-> 200, tileH |-> 150, gapX |-> 0, gapY |-> 0, left |-> 50, top |-> 100],
      [tileW |-> 100, tileH |-> 240, gapX |-> 60, gapY |-> 10, left |-> 10, top |-> 0] }

GridFits(g, R, C) ==
    /\ g.left + C * g.tileW + (C - 1) * g.gapX <= 1000
    /\ g.top + R * g.tileH + (R - 1) * g.gapY <= 1000

GridTile(g, r, c) ==
    Box(g.left + c * (g.tileW + g.gapX), g.top + r * (g.tileH + g.gapY),
        g.left + c * (g.tileW + g.gapX) + g.tileW,
        g.top + r * (g.tileH + g.gapY) + g.tileH)

\* The tiles of an R x C grid in reading order (row-major)
GridBoxes(g, R, C) ==
    [k \in 1 .. R * C |-> GridTile(g, (k - 1) \div C, (k - 1) % C)]

\* The orders a grid of n tiles is supplied in: every permutation for small n,
\* otherwise the affine ones k -> a * k + b (mod n)
Orders(n) ==
    IF n <= MaxPermLen
    THEN Permutations(1 .. n)
    ELSE LET affine == {[k \in 1 .. n |-> ((a * (k - 1) + b) % n) + 1] :
                           a \in 1 .. n - 1, b \in 0 .. n - 1}
         IN  {f \in affine : Cardinality({f[k] : k \in 1 .. n}) = n}

\* Column-major order of an R x C grid
Transposed(R, C) == [k \in 1 .. R * C |-> ((k - 1) % R) * C + ((k - 1) \div R) + 1]

GridInputs ==
    UNION { IF GridFits(g, R, C)
            THEN { [k \in 1 .. R * C |-> GridBoxes(g, R, C)[f[k]]] :
                      f \in Orders(R * C) \cup {Transposed(R, C)} }
            ELSE {} :
            g \in GridGeometries, R \in 1 .. MaxGridRows, C \in 1 .. MaxGridCols }

\* Boxes of irregular detections: shifted, straddling, thin, of unequal heights,
\* two of them of one cy
OrganizePool ==
    { Box(0, 0, 300, 300), Box(350, 10, 650, 310), Box(700, 140, 1000, 440),
      Box(0, 350, 300, 650), Box(100, 100, 200, 120), Box(350, 300, 650, 400),
      Box(0, 280, 300, 580), Box(700, 150, 800, 170) }

PoolInputs == UNION { [1 .. m -> OrganizePool] : m \in 0 .. MaxOrgLen }

\* Pixel sizes of the source image
ImageSizes == { [width |-> 1080, height |-> 1920], [width |-> 640, height |-> 480] }

NotCalled == [tag |-> "not called"]

Organize ==
    /\ orgResult = NotCalled
    /\ orgResult' = OrganizeBoxes(orgBoxes, orgImage.width, orgImage.height)
    /\ UNCHANGED <<orgBoxes, orgImage, editorVars, run, appVars>>

-----------------------------------------------------------------------------
(* imageProcessor.ts: upscaleSliceWithAI and generateSlices *)

NullBlob == [tag |-> "null"]

\* What one call of the enhancement service comes to:
\*   "noKey"   process.env.API_KEY is missing (line 142)
\*   "throws"  blobToBase64 or generateContent throws (caught, line 175)
\*   "noImage" the response holds no inlineData part (line 173)
\*   "image"   the response holds an image, of a size of its own
\*   "garbage" the response holds inlineData that is no decodable image
UpscaleResponses == {"noKey", "throws", "noImage", "image", "garbage"}

\* Pixel size of an enhanced image
EnhancedSize == [width |-> 1024, height |-> 1024]

\* upscaleSliceWithAI with the catch block returning an empty blob
UpscaleSliceWithAIEmptyFallback(blob, response) ==
    IF response \in {"image", "garbage"}
    THEN [kind |-> "enhanced", tile |-> blob.tile,
          width |-> EnhancedSize.width, height |-> EnhancedSize.height,
          decodable |-> (response = "image")]
    ELSE IF response = "throws"
    THEN [kind |-> "enhanced", tile |-> blob.tile, width |-> 0, height |-> 0,
          decodable |-> FALSE]
    ELSE blob

\* upscaleSliceWithAI(blob, mimeType): the blob built from the response's
\* inlineData, and the original blob on every other path
UpscaleSliceWithAI(blob, response) ==
    IF response \in {"image", "garbage"}
    THEN [kind |-> "enhanced", tile |-> blob.tile,
          width |-> EnhancedSize.width, height |-> EnhancedSize.height,
          decodable |-> (response = "image")]
    ELSE blob

\* canvas.width = w: the pixel length truncated to an integer
CanvasLength(px) == px \div (2000 * Res)

\* cropCanvas.toBlob: null for a canvas without pixels
CropBlob(item, i) ==
    LET cw == CanvasLength(item.box.w)
        ch == CanvasLength(item.box.h)
    IN  IF cw = 0 \/ ch = 0
        THEN NullBlob
        ELSE [kind |-> "crop", tile |-> i, width |-> cw, height |-> ch,
              decodable |-> TRUE]

\* generateSlices(file, boxes) just called: awaiting loadImage
NewRun(bs, image) ==
    [boxes |-> bs, img |-> image, pc |-> "loadImage",
     organized |-> NotCalled, i |-> 0, slices |-> << >>,
     cropBlob |-> NullBlob, upscaledBlob |-> NullBlob,
     status |-> "pending", error |-> "none", dimensions |-> NotCalled,
     calls |-> << >>]

Rejected(r, message) == [r EXCEPT !.pc = "settled", !.status = "rejected", !.error = message]

\* loadImage settles (lines 242-257): the empty check, organizeBoxes, the
\* canvas; then the first iteration runs up to its await of toBlob.
\* organizeBoxes reads box.cy of undefined when the array holds an empty slot.
ImageLoaded(r, ok) ==
    IF ~ok THEN Rejected(r, "image load error")
    ELSE IF Len(r.boxes) = 0 THEN Rejected(r, "No boxes to process.")
    ELSE IF \E k \in 1 .. Len(r.boxes) : r.boxes[k] = Hole THEN Rejected(r, "TypeError")
    ELSE [r EXCEPT !.organized = OrganizeBoxes(r.boxes, r.img.width, r.img.height),
                   !.i = 0, !.pc = "toBlob"]

\* End of one iteration: i++, then the next iteration up to its await of
\* toBlob, or the return of line 301
NextIteration(r) ==
    IF r.i + 1 < Len(r.organized.sortedBoxes)
    THEN [r EXCEPT !.i = r.i + 1, !.pc = "toBlob",
                   !.cropBlob = NullBlob, !.upscaledBlob = NullBlob]
    ELSE [r EXCEPT !.i = r.i + 1, !.pc = "settled", !.status = "resolved",
                   !.cropBlob = NullBlob, !.upscaledBlob = NullBlob,
                   !.dimensions = [rows |-> r.organized.rows, cols |-> r.organized.cols]]

\* toBlob settles (lines 274-282): a null blob skips the tile, any other is
\* handed to upscaleSliceWithAI
ToBlobSettled(r) ==
    LET blob == CropBlob(r.organized.sortedBoxes[r.i + 1], r.i)
    IN  IF blob = NullBlob
        THEN NextIteration(r)
        ELSE [r EXCEPT !.cropBlob = blob, !.pc = "upscale"]

\* upscaleSliceWithAI settles (line 282), createImageBitmap is awaited
UpscaleSettled(r, response) ==
    [r EXCEPT !.upscaledBlob = UpscaleSliceWithAI(r.cropBlob, response),
              !.calls = Append(@, [tile |-> r.i, crop |-> r.cropBlob,
                                   response |-> response]),
              !.pc = "createImageBitmap"]

\* createImageBitmap settles (lines 285-296): it rejects for an undecodable
\* blob, otherwise the tile is pushed with the size of the bitmap
BitmapSettled(r) ==
    IF ~r.upscaledBlob.decodable
    THEN Rejected(r, "bitmap decode error")
    ELSE LET item == r.organized.sortedBoxes[r.i + 1]
             slice == [id |-> r.i, blob |-> r.upscaledBlob,
                       row |-> item.row, col |-> item.col,
                       width |-> r.upscaledBlob.width,
                       height |-> r.upscaledBlob.height]
         IN  NextIteration([r EXCEPT !.slices = Append(@, slice)])

SliceImageLoaded(ok) ==
    /\ run.pc = "loadImage"
    /\ run' = ImageLoaded(run, ok)
    /\ UNCHANGED <<editorVars, organizeVars, appVars>>

SliceToBlobSettled ==
    /\ run.pc = "toBlob"
    /\ run' = ToBlobSettled(run)
    /\ UNCHANGED <<editorVars, organizeVars, appVars>>

SliceUpscaleSettled(response) ==
    /\ run.pc = "upscale"
    /\ run' = UpscaleSettled(run, response)
    /\ UNCHANGED <<editorVars, organizeVars, appVars>>

SliceBitmapSettled ==
    /\ run.pc = "createImageBitmap"
    /\ run' = BitmapSettled(run)
    /\ UNCHANGED <<editorVars, organizeVars, appVars>>

\* ---- inputs of generateSlices ----

ConfirmedPool == { Box(0, 0, 500, 500), Box(500, 0, 1000, 500), Box(990, 0, 1000, 10) }

\* Confirmed working sets: dense ones, and one with an empty slot as the editor
\* leaves it after a pointer-move on a deleted index
ConfirmedInputs ==
    UNION { [1 .. m -> ConfirmedPool] : m \in 0 .. MaxConfirmed }
    \cup { << Box(0, 0, 500, 500), Hole, Box(500, 0, 1000, 500) >> }

SliceImageSizes == { [width |-> 1080, height |-> 1920], [width |-> 60, height |-> 40] }

NoRun == [pc |-> "not called"]

-----------------------------------------------------------------------------
(* App.tsx: the workflow *)

NoFile == 0
NullData == [tag |-> "null"]
DefaultGridDims == [rows |-> 3, cols |-> 3]

\* The boxes the detection service finds in file f: one box in odd files, two
\* in even ones, at places of its own for each file
DetectionOf(f) ==
    [k \in 1 .. 2 - (f % 2) |->
        Box(10 * f + 450 * (k - 1), 10 * f, 10 * f + 450 * k - 50, 10 * f + 400)]

\* Pixel size of file f
FileImage(f) ==
    IF f % 2 = 1 THEN [width |-> 1080, height |-> 1920] ELSE [width |-> 640, height |-> 480]

\* What one call of analyzeGrid comes to:
\*   "loadError"      loadImage rejects (line 231)
\*   "detectionError" detectGridWithAI throws (line 132)
\*   "empty"          the service returns no crop (line 235)
\*   "detected"       the service returns the boxes of the file
AnalysisOutcomes == {"loadError", "detectionError", "empty", "detected"}

\* err.message || "Analysis failed": the rejection of loadImage is an Event,
\* which has no message
AnalysisError(outcome) ==
    CASE outcome = "loadError" -> "Analysis failed"
      [] outcome = "detectionError" -> "AI detection failed. Ensure the image is valid."
      [] outcome = "empty" -> "AI did not detect any image panels."

\* err.message || "Processing failed"
ProcessingError(message) ==
    IF message = "image load error" THEN "Processing failed" ELSE message

\* What the enhancement service answers in the runs of the application
AppUpscaleResponses == {"throws", "image"}

\* step === 'adjusting' && analyzedData ? <CropAdjuster .../> : ...
EditorRendered(st, data) == st = "adjusting" /\ data # NullData

\* The DropZone is rendered in the other branch, with its file input when no
\* file is selected and with its remove button otherwise
DropZoneRendered == ~EditorRendered(step, analyzedData)

\* The editor after a render of App with step st and analyzedData data: a
\* CropAdjuster that appears is mounted with fresh state, one that stays keeps
\* its state and receives the props, one that disappears loses its state
\* RenderEditor with a CropAdjuster that appears opened on the boxes of the
\* last confirmation
RenderEditorOnConfirmedBoxes(st, data) ==
    IF ~EditorRendered(st, data)
    THEN /\ initialBoxes' = << >>
         /\ boxes' = << >>
         /\ activeBoxIndex' = NoIndex
         /\ selectedBoxIndex' = NoIndex
         /\ interactionMode' = "null"
         /\ resizeHandle' = "null"
         /\ startPos' = [x |-> 0, y |-> 0]
         /\ startBoxState' = NullBox
         /\ scale' = 1000
         /\ mounted' = FALSE
    ELSE IF ~EditorRendered(step, analyzedData)
    THEN /\ initialBoxes' = data.boxes
         /\ boxes' = IF Len(runs) > 0 THEN runs[Len(runs)].run.boxes ELSE data.boxes
         /\ activeBoxIndex' = NoIndex
         /\ selectedBoxIndex' = NoIndex
         /\ interactionMode' = "null"
         /\ resizeHandle' = "null"
         /\ startPos' = [x |-> 0, y |-> 0]
         /\ startBoxState' = NullBox
         /\ scale' = 1000
         /\ mounted' = TRUE
    ELSE /\ initialBoxes' = data.boxes
         /\ UNCHANGED <<boxes, activeBoxIndex, selectedBoxIndex, interactionMode,
                        resizeHandle, startPos, startBoxState, scale, mounted>>

RenderEditor(st, data) ==
    IF ~EditorRendered(st, data)
    THEN /\ initialBoxes' = << >>
         /\ boxes' = << >>
         /\ activeBoxIndex' = NoIndex
         /\ selectedBoxIndex' = NoIndex
         /\ interactionMode' = "null"
         /\ resizeHandle' = "null"
         /\ startPos' = [x |-> 0, y |-> 0]
         /\ startBoxState' = NullBox
         /\ scale' = 1000
         /\ mounted' = FALSE
    ELSE IF ~EditorRendered(step, analyzedData)
    THEN /\ initialBoxes' = data.boxes
         /\ boxes' = data.boxes
         /\ activeBoxIndex' = NoIndex
         /\ selectedBoxIndex' = NoIndex
         /\ interactionMode' = "null"
         /\ resizeHandle' = "null"
         /\ startPos' = [x |-> 0, y |-> 0]
         /\ startBoxState' = NullBox
         /\ scale' = 1000
         /\ mounted' = TRUE
    ELSE /\ initialBoxes' = data.boxes
         /\ UNCHANGED <<boxes, activeBoxIndex, selectedBoxIndex, interactionMode,
                        resizeHandle, startPos, startBoxState, scale, mounted>>

\* handleFileSelected up to its await: the file input of the DropZone hands
\* over a new file
HandleFileSelected ==
    /\ DropZoneRendered
    /\ file = NoFile
    /\ Len(analyses) < MaxFiles
    /\ LET f == Len(analyses) + 1
       IN  /\ file' = f
           /\ step' = "analyzing"
           /\ error' = "null"
           /\ analyses' = Append(analyses, [file |-> f, pc |-> "pending"])
           /\ RenderEditor("analyzing", analyzedData)
    /\ UNCHANGED <<analyzedData, slices, gridDims, runs, thrown, steps,
                   organizeVars, run>>

\* analyzeGrid settles and handleFileSelected resumes (lines 29-36)
AnalysisSettled(a, outcome) ==
    /\ a \in 1 .. Len(analyses)
    /\ analyses[a].pc = "pending"
    /\ analyses' = [analyses EXCEPT ![a].pc = outcome]
    /\ IF outcome = "detected"
       THEN LET data == [url |-> analyses[a].file,
                         width |-> FileImage(analyses[a].file).width,
                         height |-> FileImage(analyses[a].file).height,
                         boxes |-> DetectionOf(analyses[a].file)]
            IN  /\ analyzedData' = data
                /\ step' = "adjusting"
                /\ RenderEditor("adjusting", data)
                /\ UNCHANGED error
       ELSE /\ error' = AnalysisError(outcome)
            /\ step' = "upload"
            /\ RenderEditor("upload", analyzedData)
            /\ UNCHANGED analyzedData
    /\ UNCHANGED <<file, slices, gridDims, runs, thrown, steps, organizeVars, run>>

\* handleCropsConfirmed up to its await: the editor's confirm button calls
\* onConfirm(boxes)
HandleCropsConfirmed ==
    /\ EditorRendered(step, analyzedData)
    /\ mounted
    /\ Len(runs) < MaxRuns
    /\ IF file = NoFile
       THEN UNCHANGED <<editorVars, appVars>>
       ELSE /\ step' = "processing"
            /\ runs' = Append(runs, [file |-> file, run |-> NewRun(boxes, FileImage(file))])
            /\ RenderEditor("processing", analyzedData)
            /\ UNCHANGED <<file, analyzedData, slices, gridDims, error, analyses,
                           thrown, steps>>
    /\ UNCHANGED <<organizeVars, run>>

HandleCancelAdjustment ==
    /\ EditorRendered(step, analyzedData)
    /\ mounted
    /\ file' = NoFile
    /\ analyzedData' = NullData
    /\ step' = "upload"
    /\ RenderEditor("upload", NullData)
    /\ UNCHANGED <<slices, gridDims, error, analyses, runs, thrown, steps,
                   organizeVars, run>>

\* handleClear: the remove button of the DropZone
HandleClear ==
    /\ DropZoneRendered
    /\ file # NoFile
    /\ file' = NoFile
    /\ slices' = << >>
    /\ analyzedData' = NullData
    /\ error' = "null"
    /\ step' = "upload"
    /\ gridDims' = DefaultGridDims
    /\ RenderEditor("upload", NullData)
    /\ UNCHANGED <<analyses, runs, thrown, steps, organizeVars, run>>

\* Run k of generateSlices takes the step that leaves its locals as r; when
\* that settles the promise, handleCropsConfirmed resumes (lines 46-52)
RunStep(k, r) ==
    /\ runs' = [runs EXCEPT ![k].run = r]
    /\ IF r.status = "resolved"
       THEN /\ slices' = r.slices
            /\ gridDims' = r.dimensions
            /\ step' = "result"
            /\ RenderEditor("result", analyzedData)
            /\ UNCHANGED error
       ELSE IF r.status = "rejected"
       THEN /\ error' = ProcessingError(r.error)
            /\ step' = "adjusting"
            /\ RenderEditor("adjusting", analyzedData)
            /\ UNCHANGED <<slices, gridDims>>
       ELSE UNCHANGED <<slices, gridDims, step, error, initialBoxes, boxes,
                        activeBoxIndex, selectedBoxIndex, interactionMode,
                        resizeHandle, startPos, startBoxState, scale, mounted>>
    /\ UNCHANGED <<file, analyzedData, analyses, thrown, steps, organizeVars, run>>

RunImageLoaded(k, ok) ==
    /\ k \in 1 .. Len(runs)
    /\ runs[k].run.pc = "loadImage"
    /\ RunStep(k, ImageLoaded(runs[k].run, ok))

RunToBlobSettled(k) ==
    /\ k \in 1 .. Len(runs)
    /\ runs[k].run.pc = "toBlob"
    /\ RunStep(k, ToBlobSettled(runs[k].run))

RunUpscaleSettled(k, response) ==
    /\ k \in 1 .. Len(runs)
    /\ runs[k].run.pc = "upscale"
    /\ RunStep(k, UpscaleSettled(runs[k].run, response))

RunBitmapSettled(k) ==
    /\ k \in 1 .. Len(runs)
    /\ runs[k].run.pc = "createImageBitmap"
    /\ RunStep(k, BitmapSettled(runs[k].run))

\* An event of the mounted editor
EditorEvent(handler) ==
    /\ EditorRendered(step, analyzedData)
    /\ handler
    /\ UNCHANGED <<steps, organizeVars, run, appVars>>

-----------------------------------------------------------------------------
(* Specifications *)

EditorInit ==
    /\ initialBoxes \in DetectedLayouts
    /\ boxes = initialBoxes
    /\ activeBoxIndex = NoIndex
    /\ selectedBoxIndex = NoIndex
    /\ interactionMode = "null"
    /\ resizeHandle = "null"
    /\ startPos = [x |-> 0, y |-> 0]
    /\ startBoxState = NullBox
    /\ scale = 1000
    /\ mounted = TRUE
    /\ thrown = FALSE
    /\ steps = 0

OrganizeIdle ==
    /\ orgBoxes = << >>
    /\ orgImage = [width |-> 0, height |-> 0]
    /\ orgResult = NotCalled

AppIdle ==
    /\ file = NoFile
    /\ step = "upload"
    /\ analyzedData = NullData
    /\ slices = << >>
    /\ gridDims = DefaultGridDims
    /\ error = "null"
    /\ analyses = << >>
    /\ runs = << >>

Init == EditorInit /\ OrganizeIdle /\ run = NoRun /\ AppIdle

Tick == steps < MaxSteps /\ steps' = steps + 1 /\ UNCHANGED <<organizeVars, run, appVars>>

Next ==
    \/ Tick /\ \E i \in RenderedIndices, pos \in PointerPositions : HandleMoveStart(i, pos)
    \/ Tick /\ \E i \in RenderedIndices, h \in RenderedHandles, pos \in PointerPositions :
                  HandleResizeStart(i, h, pos)
    \/ Tick /\ \E pos \in PointerPositions : HandlePointerMove(pos)
    \/ Tick /\ HandlePointerUp
    \/ Tick /\ \E i \in RenderedIndices : HandleDeleteBox(i)
    \/ Tick /\ HandleReset
    \/ Tick /\ HandleSyncSize
    \/ Tick /\ \E d \in {"in", "out"} : HandleZoom(d)
    \/ Tick /\ \E c \in BOOLEAN, dy \in WheelDeltas : HandleWheel(c, dy)

Spec == Init /\ [][Next]_vars

\* Move gestures only (pointer-down on a box body, pointer-moves, pointer-up)
MoveTick == steps < MaxMoveSteps /\ steps' = steps + 1 /\ UNCHANGED <<organizeVars, run, appVars>>

MoveNext ==
    \/ MoveTick /\ \E i \in RenderedIndices, pos \in PointerPositions : HandleMoveStart(i, pos)
    \/ MoveTick /\ \E pos \in PointerPositions : HandlePointerMove(pos)
    \/ MoveTick /\ HandlePointerUp

SpecMove == Init /\ [][MoveNext]_vars

\* One call of organizeBoxes on a grid or an irregular input
OrganizeInit ==
    /\ orgBoxes \in GridInputs \cup PoolInputs
    /\ orgImage \in ImageSizes
    /\ orgResult = NotCalled
    /\ run = NoRun
    /\ initialBoxes = << >>
    /\ boxes = << >>
    /\ activeBoxIndex = NoIndex
    /\ selectedBoxIndex = NoIndex
    /\ interactionMode = "null"
    /\ resizeHandle = "null"
    /\ startPos = [x |-> 0, y |-> 0]
    /\ startBoxState = NullBox
    /\ scale = 1000
    /\ mounted = FALSE
    /\ thrown = FALSE
    /\ steps = 0
    /\ AppIdle

OrganizeNext == Organize

SpecOrganize == OrganizeInit /\ [][OrganizeNext]_vars

EditorClosed ==
    /\ initialBoxes = << >>
    /\ boxes = << >>
    /\ activeBoxIndex = NoIndex
    /\ selectedBoxIndex = NoIndex
    /\ interactionMode = "null"
    /\ resizeHandle = "null"
    /\ startPos = [x |-> 0, y |-> 0]
    /\ startBoxState = NullBox
    /\ scale = 1000
    /\ mounted = FALSE
    /\ thrown = FALSE
    /\ steps = 0

\* One run of generateSlices on a confirmed working set
SlicesInit ==
    /\ \E bs \in ConfirmedInputs, image \in SliceImageSizes : run = NewRun(bs, image)
    /\ OrganizeIdle
    /\ EditorClosed
    /\ AppIdle

SlicesNext ==
    \/ \E ok \in BOOLEAN : SliceImageLoaded(ok)
    \/ SliceToBlobSettled
    \/ \E response \in UpscaleResponses : SliceUpscaleSettled(response)
    \/ SliceBitmapSettled

SpecSlices == SlicesInit /\ [][SlicesNext]_vars

\* The application from its first render: files selected, analysed, edited,
\* confirmed, cleared, and the async calls settling in any order
AppInit == EditorClosed /\ OrganizeIdle /\ run = NoRun /\ AppIdle

AppNext ==
    \/ HandleFileSelected
    \/ \E a \in 1 .. Len(analyses), outcome \in AnalysisOutcomes : AnalysisSettled(a, outcome)
    \/ HandleCropsConfirmed
    \/ HandleCancelAdjustment
    \/ HandleClear
    \/ \E k \in 1 .. Len(runs), ok \in BOOLEAN : RunImageLoaded(k, ok)
    \/ \E k \in 1 .. Len(runs) : RunToBlobSettled(k)
    \/ \E k \in 1 .. Len(runs), response \in AppUpscaleResponses : RunUpscaleSettled(k, response)
    \/ \E k \in 1 .. Len(runs) : RunBitmapSettled(k)
    \/ \E i \in RenderedIndices : EditorEvent(HandleMoveStart(i, [x |-> 0, y |-> 0]))
    \/ EditorEvent(HandlePointerUp)
    \/ \E i \in RenderedIndices : EditorEvent(HandleDeleteBox(i))
    \/ \E d \in {"in", "out"} : EditorEvent(HandleZoom(d))

SpecApp == AppInit /\ [][AppNext]_vars

-----------------------------------------------------------------------------
(* Properties of the editor *)

Width(b) == b.xmax - b.xmin
Height(b) == b.ymax - b.ymin

InCanvas(b) ==
    /\ 0 <= b.xmin /\ b.xmin < b.xmax /\ b.xmax <= CanvasMax
    /\ 0 <= b.ymin /\ b.ymin < b.ymax /\ b.ymax <= CanvasMax

BoundsInCanvas(b) ==
    /\ 0 <= b.xmin /\ b.xmin <= CanvasMax /\ 0 <= b.xmax /\ b.xmax <= CanvasMax
    /\ 0 <= b.ymin /\ b.ymin <= CanvasMax /\ 0 <= b.ymax /\ b.ymax <= CanvasMax

\* The elements of an array that are boxes, in index order
Present(arr) ==
    LET F[k \in 0 .. Len(arr)] ==
            IF k = 0 THEN << >>
            ELSE IF arr[k] # Hole THEN Append(F[k - 1], arr[k]) ELSE F[k - 1]
    IN  F[Len(arr)]

\* C1: under move gestures only, every box of the working set keeps the width
\* and height it was detected with and satisfies 0 <= xmin < xmax <= 1000 and
\* 0 <= ymin < ymax <= 1000 in every state (so after every pointer-move).
C1_MovePreservesSizeAndBounds ==
    /\ Len(boxes) = Len(initialBoxes)
    /\ \A k \in 1 .. Len(boxes) :
          /\ Width(boxes[k]) = Width(initialBoxes[k])
          /\ Height(boxes[k]) = Height(initialBoxes[k])
          /\ InCanvas(boxes[k])

\* A completed move gesture that displaced a box on both axes and was clamped at
\* the left side of the canvas
C1_Witness ==
    /\ activeBoxIndex = NoIndex
    /\ \E k \in 1 .. Len(boxes) :
          /\ boxes[k].xmin = 0 /\ initialBoxes[k].xmin > 0
          /\ boxes[k].ymin # initialBoxes[k].ymin

\* C2 (as claimed): the box that a pointer-move in resize mode writes has width
\* and height of at least 20 and all four bounds within [0, 1000].
C2_ResizeWithinLimits ==
    [][\A pos \in PointerPositions :
          (interactionMode = "resize" /\ activeBoxIndex # NoIndex
              /\ HandlePointerMove(pos) /\ mounted')
          => LET b == At(boxes', activeBoxIndex)
             IN  Width(b) >= MinSize /\ Height(b) >= MinSize /\ BoundsInCanvas(b)]_vars

\* C3 (as claimed): when the source box is at most 1000 wide and high, every
\* non-source box lies inside the canvas after Dimension-Sync.
C3_SyncKeepsBoxesInCanvas ==
    [][(HandleSyncSize /\ selectedBoxIndex # NoIndex
          /\ At(boxes, selectedBoxIndex) # Undefined
          /\ Width(At(boxes, selectedBoxIndex)) <= CanvasMax
          /\ Height(At(boxes, selectedBoxIndex)) <= CanvasMax)
       => \A k \in 1 .. Len(boxes') :
             (k # selectedBoxIndex + 1 /\ boxes'[k] # Hole) => BoundsInCanvas(boxes'[k])]_vars

\* C4 (as claimed): no editor operation throws, in any reachable state.
C4_NoOperationThrows == thrown = FALSE

\* C8 (as claimed): while a gesture is active, the active index, the mode, the
\* handle and the snapshot change only by the pointer-up that returns to idle.
C8_GestureExclusive ==
    [][(activeBoxIndex # NoIndex /\ activeBoxIndex' # NoIndex)
       => UNCHANGED <<activeBoxIndex, interactionMode, resizeHandle, startPos,
                      startBoxState>>]_vars

\* C9: a delete of index i removes exactly the box at index i from the boxes of
\* the working set: one box fewer, the others keep their bounds and their
\* order; a delete of the selected index empties the selection.
C9_DeleteRemovesExactlyOne ==
    [][\A i \in RenderedIndices :
          HandleDeleteBox(i)
          => LET before == Present(boxes)
                 after == boxes'
                 j == Cardinality({m \in RenderedIndices : m <= i})
             IN  /\ Len(after) = Len(before) - 1
                 /\ \A k \in 1 .. Len(after) :
                       after[k] = before[IF k < j THEN k ELSE k + 1]
                 /\ before[j] = At(boxes, i)
                 /\ (selectedBoxIndex = i => selectedBoxIndex' = NoIndex)]_vars

\* The selected box (not the last one) has just been deleted: the selection is
\* empty and the snapshot taken when it was selected is no longer in the set
C9_Witness ==
    /\ steps = 2
    /\ Len(boxes) = Len(initialBoxes) - 1
    /\ selectedBoxIndex = NoIndex
    /\ startBoxState = initialBoxes[1]
    /\ boxes = Tail(initialBoxes)


-----------------------------------------------------------------------------
(* Properties of organizeBoxes *)

Bounds(pb) == [xmin |-> pb.xmin, ymin |-> pb.ymin, xmax |-> pb.xmax, ymax |-> pb.ymax]

Range(f) == {f[k] : k \in DOMAIN f}

\* arr holds the (distinct) boxes of base, each once, in some order
IsArrangementOf(arr, base) == Len(arr) = Len(base) /\ Range(arr) = Range(base)

Occurrences(arr, b) == Cardinality({k \in 1 .. Len(arr) : arr[k] = b})

\* C5: for the tiles of a uniform R x C grid given in any order, organizeBoxes
\* returns rows = R and cols = C, and its sequence is the grid in reading order,
\* the k-th tile carrying row (k-1) div C and col (k-1) mod C.
C5_UniformGridRecovered ==
    orgResult # NotCalled =>
        \A g \in GridGeometries, R \in 1 .. MaxGridRows, C \in 1 .. MaxGridCols :
            (GridFits(g, R, C) /\ IsArrangementOf(orgBoxes, GridBoxes(g, R, C)))
            => /\ orgResult.rows = R
               /\ orgResult.cols = C
               /\ Len(orgResult.sortedBoxes) = R * C
               /\ \A k \in 1 .. R * C :
                     /\ Bounds(orgResult.sortedBoxes[k].box) = GridBoxes(g, R, C)[k]
                     /\ orgResult.sortedBoxes[k].row = (k - 1) \div C
                     /\ orgResult.sortedBoxes[k].col = (k - 1) % C

\* The 3 x 3 grid with 2% gutters, supplied in column-major order, organized
C5_Witness ==
    LET g == [tileW |-> 320, tileH |-> 320, gapX |-> 20, gapY |-> 20,
              left |-> 0, top |-> 0]
    IN  /\ orgResult # NotCalled
        /\ orgBoxes = [k \in 1 .. 9 |-> GridBoxes(g, 3, 3)[Transposed(3, 3)[k]]]
        /\ orgResult.rows = 3
        /\ orgResult.cols = 3

\* C6: in the result of organizeBoxes, within a row col increases with cx, a
\* box of a later row never has a smaller cy than a box of an earlier row, the
\* row values are exactly 0 .. rows-1 and the col values of each row are
\* exactly 0 .. (row length - 1).
C6_RowColInvariant ==
    orgResult # NotCalled =>
        LET sb == orgResult.sortedBoxes
            idx == 1 .. Len(sb)
            RowMembers(r) == {k \in idx : sb[k].row = r}
        IN  /\ \A a, b \in idx :
                  /\ (sb[a].row = sb[b].row /\ sb[a].col < sb[b].col)
                        => sb[a].box.cx <= sb[b].box.cx
                  /\ sb[a].row < sb[b].row => sb[a].box.cy <= sb[b].box.cy
                  /\ (sb[a].row = sb[b].row /\ sb[a].col = sb[b].col) => a = b
            /\ {sb[k].row : k \in idx} = 0 .. orgResult.rows - 1
            /\ \A r \in 0 .. orgResult.rows - 1 :
                  {sb[k].col : k \in RowMembers(r)} = 0 .. Cardinality(RowMembers(r)) - 1

\* An irregular input organized into two rows, the first of which holds boxes
\* that were supplied right-to-left
C6_Witness ==
    /\ orgResult # NotCalled
    /\ orgResult.rows = 2
    /\ Len(orgBoxes) = 3
    /\ orgBoxes[1].xmin > orgBoxes[2].xmin
    /\ orgResult.sortedBoxes[1].row = 0 /\ orgResult.sortedBoxes[2].row = 0
    /\ Bounds(orgResult.sortedBoxes[1].box) = orgBoxes[2]

\* C7: the sequence organizeBoxes returns holds every input box exactly as
\* often as the input does (same length) and is sorted by row, then by col.
C7_TotalRowMajorOrder ==
    orgResult # NotCalled =>
        LET sb == orgResult.sortedBoxes
            out == [k \in 1 .. Len(sb) |-> Bounds(sb[k].box)]
        IN  /\ Len(sb) = Len(orgBoxes)
            /\ \A b \in Range(orgBoxes) \cup Range(out) :
                  Occurrences(out, b) = Occurrences(orgBoxes, b)
            /\ \A k \in 1 .. Len(sb) - 1 :
                  \/ sb[k].row < sb[k + 1].row
                  \/ sb[k].row = sb[k + 1].row /\ sb[k].col < sb[k + 1].col

\* An input with a repeated box, supplied bottom row first, organized
C7_Witness ==
    /\ orgResult # NotCalled
    /\ Len(orgBoxes) = 4
    /\ orgBoxes[1] = orgBoxes[4]
    /\ orgBoxes[1].ymin > orgBoxes[2].ymin
    /\ orgResult.rows >= 2

-----------------------------------------------------------------------------
(* Properties of generateSlices *)

\* The responses with which the enhancement service fails
EnhancementFailures == {"throws", "noImage"}

\* C10: a failed enhancement call is not fatal.  Once the run has gone past the
\* tile of a failed call, it holds a tile for that box with the crop's blob and
\* the crop's pixel size; a run is never rejected after a failed call (only for
\* an image that does not load, an unusable working set, or an enhanced blob
\* that does not decode); and a resolved run holds a tile for every box whose
\* crop has pixels.
C10_EnhancementFailureNotFatal ==
    run # NoRun =>
        /\ \A k \in 1 .. Len(run.calls) :
              LET call == run.calls[k]
              IN  (call.response \in EnhancementFailures
                     /\ (run.i > call.tile \/ run.pc = "settled"))
                  => \E n \in 1 .. Len(run.slices) :
                        /\ run.slices[n].id = call.tile
                        /\ run.slices[n].blob = call.crop
                        /\ call.crop.kind = "crop"
                        /\ run.slices[n].width = call.crop.width
                        /\ run.slices[n].height = call.crop.height
        /\ run.status = "rejected" =>
              /\ run.error \in {"image load error", "No boxes to process.",
                                "TypeError", "bitmap decode error"}
              /\ run.error = "bitmap decode error" =>
                    run.calls[Len(run.calls)].response = "garbage"
        /\ run.status = "resolved" =>
              \A t \in 0 .. Len(run.organized.sortedBoxes) - 1 :
                  CropBlob(run.organized.sortedBoxes[t + 1], t) # NullBlob
                  => \E n \in 1 .. Len(run.slices) : run.slices[n].id = t

\* A resolved run of two tiles whose first enhancement call threw and whose
\* second returned an image
C10_Witness ==
    /\ run # NoRun
    /\ run.status = "resolved"
    /\ Len(run.calls) = 2
    /\ run.calls[1].response = "throws"
    /\ run.calls[2].response = "image"
    /\ Len(run.slices) = 2
    /\ run.slices[1].blob.kind = "crop"
    /\ run.slices[2].blob.kind = "enhanced"

\* C12: a resolved generateSlices run over n confirmed boxes holds exactly n
\* tiles; the k-th tile (0-based) has id k and the row and col that
\* organizeBoxes gave to the k-th box of its order, whatever the responses of
\* the enhancement service were.
C12_OneTilePerConfirmedBox ==
    (run # NoRun /\ run.status = "resolved") =>
        /\ Len(run.slices) = Len(run.boxes)
        /\ \A k \in 0 .. Len(run.slices) - 1 :
              /\ run.slices[k + 1].id = k
              /\ run.slices[k + 1].row = run.organized.sortedBoxes[k + 1].row
              /\ run.slices[k + 1].col = run.organized.sortedBoxes[k + 1].col

-----------------------------------------------------------------------------
(* Properties of Dimension-Sync, reset and zoom *)

\* The selection designates a box of the working set
SourceSelected ==
    mounted /\ selectedBoxIndex # NoIndex /\ At(boxes, selectedBoxIndex) # Undefined

\* The rectangle of the source's size centred on b lies inside the canvas
RecentredFits(b, source) ==
    /\ (b.xmin + b.xmax) - Width(source) >= 0
    /\ (b.xmin + b.xmax) + Width(source) <= 2 * CanvasMax
    /\ (b.ymin + b.ymax) - Height(source) >= 0
    /\ (b.ymin + b.ymax) + Height(source) <= 2 * CanvasMax

\* C15: after Dimension-Sync with a selected source box, every other box has
\* exactly the source's width and height, and every other box whose re-centred
\* rectangle fits inside the canvas has kept its centre point.
C15_SyncSizeAndCentre ==
    [][(HandleSyncSize /\ SourceSelected)
       => LET source == At(boxes, selectedBoxIndex)
          IN  /\ Len(boxes') = Len(boxes)
              /\ \A k \in 1 .. Len(boxes) :
                    (k # selectedBoxIndex + 1 /\ boxes[k] # Hole)
                    => /\ Width(boxes'[k]) = Width(source)
                       /\ Height(boxes'[k]) = Height(source)
                       /\ RecentredFits(boxes[k], source)
                          => /\ boxes'[k].xmin + boxes'[k].xmax
                                  = boxes[k].xmin + boxes[k].xmax
                             /\ boxes'[k].ymin + boxes'[k].ymax
                                  = boxes[k].ymin + boxes[k].ymax]_vars

\* The 100 x 100 box of the second layout was selected and Dimension-Sync
\* shrank the 400 x 300 box around its centre (300, 250)
C15_Witness ==
    /\ steps = 2
    /\ selectedBoxIndex = 1
    /\ Len(boxes) = 3
    /\ initialBoxes[1] = Box(100, 100, 500, 400)
    /\ boxes[1] = Box(250, 200, 350, 300)
    /\ boxes[2] = Box(900, 600, 1000, 700)

\* Width and height of every box of an array
Sizes(arr) ==
    [k \in 1 .. Len(arr) |->
        IF arr[k] = Hole THEN Hole ELSE << Width(arr[k]), Height(arr[k]) >>]

\* C16: Dimension-Sync applied twice in a row with the same source leaves every
\* box with the width and height it had after the first application.
C16_SyncIdempotentOnSize ==
    SourceSelected =>
        LET once == SyncResult(boxes, selectedBoxIndex)
            twice == SyncResult(once, selectedBoxIndex)
        IN  Sizes(twice) = Sizes(once)

\* Dimension-Sync has been applied twice in a row with the same source; the
\* second application moved a box and changed no size
C16_Witness ==
    /\ steps = 3
    /\ SourceSelected
    /\ Len(boxes) = Len(initialBoxes)
    /\ LET once == SyncResult(initialBoxes, selectedBoxIndex)
       IN  /\ once # initialBoxes
           /\ boxes = SyncResult(once, selectedBoxIndex)
           /\ boxes # once
           /\ Sizes(boxes) = Sizes(once)

\* The working set holds no empty slot and its boxes have one width and height
EqualSizes(arr) ==
    /\ \A k \in 1 .. Len(arr) : arr[k] # Hole /\ arr[k] # Undefined
    /\ \A j, k \in 1 .. Len(arr) :
          Width(arr[j]) = Width(arr[k]) /\ Height(arr[j]) = Height(arr[k])

\* The (row, col) that organizeBoxes assigns to the box at each index of bs
Assignment(bs, width, height) ==
    LET tagged == [k \in 1 .. Len(bs) |-> PixelBox(bs[k], width, height) @@ [idx |-> k]]
        flat == FlattenRows(ClusterRows(SortByCy(tagged)))
    IN  [k \in 1 .. Len(bs) |->
            LET e == CHOOSE e \in Range(flat) : e.box.idx = k
            IN  << e.row, e.col >>]

\* C17 (as claimed): for a working set of boxes of one width and height,
\* Dimension-Sync with any box as source followed by organizeBoxes assigns every box the row
\* and col that organizeBoxes assigned before the sync.
C17_SyncKeepsAssignment ==
    (mounted /\ EqualSizes(boxes)) =>
        \A s \in 0 .. Len(boxes) - 1, image \in ImageSizes :
            Assignment(SyncResult(boxes, s), image.width, image.height)
                = Assignment(boxes, image.width, image.height)

\* C18: Reset restores the working set to the detected boxes (count, order and
\* bounds), empties the selection and sets the zoom factor to 1.
C18_ResetRestores ==
    [][HandleReset
       => /\ boxes' = initialBoxes
          /\ selectedBoxIndex' = NoIndex
          /\ scale' = 1000]_vars

\* Reset after a move gesture on the first box, a pointer-move that displaced
\* it and a zoom
C18_Witness ==
    /\ steps = 4
    /\ Len(initialBoxes) >= 2
    /\ startBoxState = initialBoxes[1]
    /\ activeBoxIndex = 0
    /\ boxes = initialBoxes
    /\ selectedBoxIndex = NoIndex
    /\ scale = 1000

C20_RowsAndCols ==
    orgResult # NotCalled =>
        LET sb == orgResult.sortedBoxes
            idx == 1 .. Len(sb)
            RowMembers(r) == {k \in idx : sb[k].row = r}
            rowSet == {sb[k].row : k \in idx}
        IN  /\ orgResult.rows = Cardinality(rowSet)
            /\ \A r \in rowSet : Cardinality(RowMembers(r)) <= orgResult.cols
            /\ rowSet # {} => \E r \in rowSet : Cardinality(RowMembers(r)) = orgResult.cols
            /\ Len(orgBoxes) = 0
                  => sb = << >> /\ orgResult.rows = 0 /\ orgResult.cols = 0

\* A result whose first row is longer than its last row
C20_Witness ==
    /\ orgResult # NotCalled
    /\ orgResult.rows = 2
    /\ orgResult.cols = 2
    /\ Len(orgResult.sortedBoxes) = 3
    /\ orgResult.sortedBoxes[3].row = 1

-----------------------------------------------------------------------------
(* Properties of the workflow *)

\* The runs of generateSlices that are awaiting upscaleSliceWithAI
EnhancementsInFlight == {k \in 1 .. Len(runs) : runs[k].run.pc = "upscale"}

\* C11 (as claimed): at every moment at most one enhancement call is in flight,
\* whatever the user does (confirm, clear, new file) while calls are pending.
C11_OneEnhancementInFlight == Cardinality(EnhancementsInFlight) <= 1

\* The analysis outcomes that are failures of the detection
DetectionFailures == {"detectionError", "empty"}

\* C13 (as claimed): a run of generateSlices on zero confirmed boxes (whose
\* image loads) is rejected with "No boxes to process." without a crop or an
\* enhancement call, and the application then holds that message as its error
\* and moves from step 'processing' to step 'adjusting'.
C13_NoBoxesError ==
    [][\A k \in 1 .. Len(runs) :
          (Len(runs[k].run.boxes) = 0 /\ RunImageLoaded(k, TRUE))
          => /\ runs'[k].run.status = "rejected"
             /\ runs'[k].run.error = "No boxes to process."
             /\ runs'[k].run.organized = NotCalled
             /\ runs'[k].run.calls = << >>
             /\ error' = "No boxes to process."
             /\ step = "processing"
             /\ step' = "adjusting"]_vars

\* C14 (as claimed): when the detection fails or returns no box, analyzedData
\* stays null, the error is set and the step becomes 'upload', with no editor
\* opened.
C14_DetectionFailure ==
    [][\A a \in 1 .. Len(analyses), outcome \in DetectionFailures :
          AnalysisSettled(a, outcome)
          => /\ analyzedData' = NullData
             /\ error' = AnalysisError(outcome)
             /\ step' = "upload"
             /\ ~mounted']_vars

-----------------------------------------------------------------------------
(* Properties of the selection and of the drag state *)

\* C21 (as claimed): after a delete of a box other than the selected one the
\* selection designates the box it designated before (same bounds), and in
\* every state the selection is empty or an index below the number of boxes.
C21_SelectionSurvivesDelete ==
    /\ [](mounted => (selectedBoxIndex = NoIndex \/ selectedBoxIndex < Len(boxes)))
    /\ [][\A i \in RenderedIndices :
             (HandleDeleteBox(i) /\ selectedBoxIndex # NoIndex /\ selectedBoxIndex # i
                 /\ At(boxes, selectedBoxIndex) # Undefined)
             => /\ selectedBoxIndex' # NoIndex
                /\ At(boxes', selectedBoxIndex') = At(boxes, selectedBoxIndex)]_vars

-----------------------------------------------------------------------------
(* Properties of the workflow under stale completions *)

\* C22 (as claimed): in every state, a step other than 'upload' implies that a
\* file is selected; a completion that arrives after Clear neither moves the
\* step nor installs analyzedData or slices.
C22_StepImpliesFile ==
    step \in {"analyzing", "adjusting", "processing", "result"} => file # NoFile

\* C23 (as claimed): the boxes of every call generateSlices(file, boxes) come
\* from the detection result of that file, and the boxes offered for editing
\* come from the detection result of the selected file.
C23_BoxesOfSameFile ==
    /\ \A k \in 1 .. Len(runs) :
          Range(runs[k].run.boxes) \subseteq Range(DetectionOf(runs[k].file))
    /\ (mounted /\ file # NoFile) => Range(boxes) \subseteq Range(DetectionOf(file))

-----------------------------------------------------------------------------
(* Properties of the row clustering *)

\* Indices of the entries of a result that carry row r
RowMembers(sortedBoxes, r) == {k \in 1 .. Len(sortedBoxes) : sortedBoxes[k].row = r}

\* The cy of the first box placed in row r: the least cy of the row, the boxes
\* being placed in ascending cy
RowAnchorCy(sortedBoxes, r) ==
    CHOOSE a \in {sortedBoxes[k].box.cy : k \in RowMembers(sortedBoxes, r)} :
        \A k \in RowMembers(sortedBoxes, r) : a <= sortedBoxes[k].box.cy

\* C24: the rows of a result are those of one greedy pass over the boxes in
\* ascending cy.  Every row has an opener whose cy is the anchor of the row;
\* every other member lies within half its own height of that anchor, however
\* many members joined before it; the opener of every row but the first lies
\* at least half its own height away from the anchor of the row before; and
\* no box of a later row has a cy below a box of an earlier row, so that a
\* closed row is never reopened.
C24_GreedyRowsOnFixedAnchor ==
    orgResult # NotCalled =>
        LET S == orgResult.sortedBoxes
        IN  \A r \in 0 .. orgResult.rows - 1 :
                /\ RowMembers(S, r) # {}
                /\ \E k0 \in RowMembers(S, r) :
                      /\ S[k0].box.cy = RowAnchorCy(S, r)
                      /\ \A k \in RowMembers(S, r) \ {k0} :
                            2 * Abs(S[k].box.cy - RowAnchorCy(S, r)) < S[k].box.h
                      /\ r > 0 =>
                            2 * Abs(S[k0].box.cy - RowAnchorCy(S, r - 1)) >= S[k0].box.h
                /\ r > 0 =>
                      \A k \in RowMembers(S, r), j \in RowMembers(S, r - 1) :
                          S[j].box.cy <= S[k].box.cy

\* A row was closed by a box that lies within half its height of the last
\* member of that row, but not of the row's anchor
C24_Witness ==
    /\ orgResult # NotCalled
    /\ LET S == orgResult.sortedBoxes
       IN  \E r \in 1 .. orgResult.rows - 1 :
              \E k \in RowMembers(S, r), j \in RowMembers(S, r - 1) :
                  /\ S[k].box.cy = RowAnchorCy(S, r)
                  /\ 2 * Abs(S[k].box.cy - S[j].box.cy) < S[k].box.h
                  /\ 2 * Abs(S[k].box.cy - RowAnchorCy(S, r - 1)) >= S[k].box.h

-----------------------------------------------------------------------------
(* Properties of the gestures *)

\* C25 (as claimed): from idle, on a box that shows its handles, each of the
\* eight handles n, s, e, w, ne, nw, se, sw offers a pointer-down that starts
\* resizing with that handle.
C25_EightHandlesStartResize ==
    (mounted /\ activeBoxIndex = NoIndex /\ selectedBoxIndex \in RenderedIndices) =>
        \A h \in {"n", "s", "e", "w", "ne", "nw", "se", "sw"} :
            ENABLED HandleResizeStart(selectedBoxIndex, h, [x |-> 0, y |-> 0])

\* C26: the drag state is a legal combination in every state: there is an
\* active box exactly when there is an interaction mode, there is a resize
\* handle exactly when the mode is 'resize' (so 'move' has none), and a
\* pointer-down on a resize handle makes the mode 'resize' with that handle
\* on that box, never 'move'.
C26_LegalDragState ==
    /\ [](/\ (activeBoxIndex = NoIndex) <=> (interactionMode = "null")
          /\ (resizeHandle # "null") <=> (interactionMode = "resize")
          /\ interactionMode = "move" => resizeHandle = "null"
          /\ interactionMode \in {"null", "move", "resize"})
    /\ [][\A i \in RenderedIndices, h \in RenderedHandles, pos \in PointerPositions :
             HandleResizeStart(i, h, pos) =>
                 /\ interactionMode' = "resize"
                 /\ resizeHandle' = h
                 /\ activeBoxIndex' = i]_vars

\* A pointer-down on the south-east handle of box 1 started a resize gesture,
\* and a pointer-move of that gesture changed the box
C26_Witness ==
    /\ interactionMode = "resize"
    /\ resizeHandle = "se"
    /\ activeBoxIndex = 1
    /\ selectedBoxIndex = 1
    /\ At(boxes, 1) # At(initialBoxes, 1)

\* C27: a pointer-up that ends a gesture clears the active index, the
\* interaction mode and the resize handle, and changes neither the working set
\* nor the selection; the selection was put on the gesture's box by the
\* pointer-down and no pointer-move changes it.  A pointer-move with no gesture
\* in progress changes no box.
C27_PointerUpReturnsToIdle ==
    /\ [][(HandlePointerUp /\ activeBoxIndex # NoIndex) =>
             /\ activeBoxIndex' = NoIndex
             /\ interactionMode' = "null"
             /\ resizeHandle' = "null"
             /\ boxes' = boxes
             /\ selectedBoxIndex' = selectedBoxIndex]_vars
    /\ [][\A i \in RenderedIndices, pos \in PointerPositions :
             /\ HandleMoveStart(i, pos) => selectedBoxIndex' = i
             /\ \A h \in RenderedHandles :
                   HandleResizeStart(i, h, pos) => selectedBoxIndex' = i]_vars
    /\ [][\A pos \in PointerPositions :
             HandlePointerMove(pos) =>
                 /\ selectedBoxIndex' = selectedBoxIndex
                 /\ activeBoxIndex = NoIndex => boxes' = boxes]_vars

\* Idle after a gesture that changed the selected box: the box is still
\* selected and keeps the bounds of the gesture
C27_Witness ==
    /\ mounted
    /\ activeBoxIndex = NoIndex
    /\ interactionMode = "null"
    /\ resizeHandle = "null"
    /\ selectedBoxIndex = 1
    /\ startBoxState = At(initialBoxes, 1)
    /\ At(boxes, 1) # At(initialBoxes, 1)
    /\ At(boxes, 0) = At(initialBoxes, 0)

\* The edge of a box that a letter of a handle names
Edge(box, c) ==
    CASE c = "w" -> box.xmin
      [] c = "e" -> box.xmax
      [] c = "n" -> box.ymin
      [] c = "s" -> box.ymax

\* C28: a pointer-move of a resize gesture leaves every edge that the handle
\* does not name at the value captured at the pointer-down, and a pointer-move
\* of a move or resize gesture leaves every box other than the active one as
\* it was.
C28_ResizeFrame ==
    [][\A pos \in PointerPositions :
          (HandlePointerMove(pos) /\ activeBoxIndex # NoIndex /\ startBoxState # NullBox) =>
              /\ interactionMode = "resize" =>
                    \A c \in {"w", "e", "n", "s"} :
                        ~Includes(resizeHandle, c) =>
                            Edge(At(boxes', activeBoxIndex), c) = Edge(startBoxState, c)
              /\ \A k \in RenderedIndices \ {activeBoxIndex} :
                    At(boxes, k) # Undefined => At(boxes', k) = At(boxes, k)]_vars

\* A resize on the north-west handle has moved the left and top edges of box 0;
\* its right and bottom edges are those of the snapshot
C28_Witness ==
    /\ interactionMode = "resize"
    /\ resizeHandle = "nw"
    /\ activeBoxIndex = 0
    /\ At(boxes, 0) # Undefined
    /\ At(boxes, 0).xmin # startBoxState.xmin
    /\ At(boxes, 0).ymin # startBoxState.ymin
    /\ At(boxes, 0).xmax = startBoxState.xmax
    /\ At(boxes, 0).ymax = startBoxState.ymax
    /\ At(boxes, 1) = At(initialBoxes, 1)

\* C29: a pointer-move of a move gesture writes, for a snapshot of width W and
\* height H and a pointer delta (dx, dy),
\*   xmin = max(0, min(1000 - W, snapshot.xmin + dx)), xmax = xmin + W,
\*   ymin = max(0, min(1000 - H, snapshot.ymin + dy)), ymax = ymin + H;
\* a would-be negative xmin gives xmin = 0 and xmax = W.
C29_MoveClamped ==
    [][\A pos \in PointerPositions :
          (HandlePointerMove(pos) /\ interactionMode = "move"
              /\ activeBoxIndex # NoIndex /\ startBoxState # NullBox) =>
              LET W == startBoxState.xmax - startBoxState.xmin
                  H == startBoxState.ymax - startBoxState.ymin
                  dx == ((pos.x - startPos.x) * CanvasMax) \div Rect.width
                  dy == ((pos.y - startPos.y) * CanvasMax) \div Rect.height
                  b == At(boxes', activeBoxIndex)
              IN  /\ b.xmin = Max(0, Min(CanvasMax - W, startBoxState.xmin + dx))
                  /\ b.xmax = b.xmin + W
                  /\ b.ymin = Max(0, Min(CanvasMax - H, startBoxState.ymin + dy))
                  /\ b.ymax = b.ymin + H
                  /\ startBoxState.xmin + dx < 0 => (b.xmin = 0 /\ b.xmax = W)]_vars

\* A move gesture in progress on a box captured away from the left side, now
\* clamped at xmin = 0 with its width kept
C29_Witness ==
    /\ interactionMode = "move"
    /\ activeBoxIndex # NoIndex
    /\ startBoxState # NullBox
    /\ At(boxes, activeBoxIndex) # Undefined
    /\ startBoxState.xmin > 0
    /\ At(boxes, activeBoxIndex).xmin = 0
    /\ At(boxes, activeBoxIndex).xmax = startBoxState.xmax - startBoxState.xmin

-----------------------------------------------------------------------------
(* Frame of Dimension-Sync *)

\* C30: Dimension-Sync leaves the number of boxes, the selected index, the drag
\* state and the zoom factor as they were; with a source selected it leaves the
\* source's bounds and the empty slots as they were and gives every other box,
\* at its index, the result of one recomputation from its bounds before the
\* operation; with no box selected it changes nothing.
C30_SyncFrame ==
    [][HandleSyncSize =>
          /\ Len(boxes') = Len(boxes)
          /\ UNCHANGED <<selectedBoxIndex, activeBoxIndex, interactionMode, resizeHandle,
                         startPos, startBoxState, scale, initialBoxes>>
          /\ selectedBoxIndex = NoIndex => UNCHANGED <<boxes, mounted, thrown>>
          /\ SourceSelected =>
                LET source == At(boxes, selectedBoxIndex)
                IN  /\ At(boxes', selectedBoxIndex) = source
                    /\ \A k \in 1 .. Len(boxes) :
                          IF k = selectedBoxIndex + 1 \/ boxes[k] = Hole
                          THEN boxes'[k] = boxes[k]
                          ELSE boxes'[k] = SyncBox(boxes[k], Width(source), Height(source))]_vars

\* Dimension-Sync was applied during a move gesture on the source, at a zoom
\* factor of 1.25: the other boxes are recomputed, the gesture, the selection
\* and the zoom factor are as before
C30_Witness ==
    /\ interactionMode = "move"
    /\ activeBoxIndex = 0
    /\ selectedBoxIndex = 0
    /\ scale = 1000 + ZoomStep
    /\ boxes # initialBoxes
    /\ boxes = SyncResult(initialBoxes, 0)

-----------------------------------------------------------------------------
(* Order independence of organizeBoxes *)

\* What a result tells of each box: its bounds with row and col, in sequence
Placement(result) ==
    [k \in 1 .. Len(result.sortedBoxes) |->
        << Bounds(result.sortedBoxes[k].box), result.sortedBoxes[k].row,
           result.sortedBoxes[k].col >>]

\* No two boxes of one row of the result have the same cx
DistinctCxInRows(result) ==
    \A a, b \in 1 .. Len(result.sortedBoxes) :
        (a # b /\ result.sortedBoxes[a].row = result.sortedBoxes[b].row)
            => result.sortedBoxes[a].box.cx # result.sortedBoxes[b].box.cx

-----------------------------------------------------------------------------
(* A gesture as a function of its snapshot *)

-----------------------------------------------------------------------------
(* The editor after a failed slicing run *)

\* Run k of generateSlices rejects in this step
RunRejects(k) ==
    /\ k \in 1 .. Len(runs)
    /\ runs[k].run.status # "rejected"
    /\ runs'[k].run.status = "rejected"

\* C33: when a slicing run rejects while the step is 'processing', the step
\* becomes 'adjusting' and the editor is mounted anew on analyzedData.boxes:
\* the working set and the boxes Reset returns to are the detected boxes, not
\* the confirmed ones, no box is selected or active, and the zoom factor is 1.
C33_EditorAnewAfterFailure ==
    [][\A k \in 1 .. Len(runs) :
          (RunRejects(k) /\ step = "processing") =>
              /\ step' = "adjusting"
              /\ analyzedData' # NullData
              /\ mounted'
              /\ boxes' = analyzedData'.boxes
              /\ initialBoxes' = analyzedData'.boxes
              /\ selectedBoxIndex' = NoIndex
              /\ activeBoxIndex' = NoIndex
              /\ interactionMode' = "null"
              /\ scale' = 1000]_vars

\* Back in the editor after the failure of a run that was confirmed with a box
\* deleted: the working set holds the detected boxes again
C33_Witness ==
    /\ step = "adjusting"
    /\ mounted
    /\ error = "Processing failed"
    /\ analyzedData # NullData
    /\ boxes = analyzedData.boxes
    /\ selectedBoxIndex = NoIndex
    /\ scale = 1000
    /\ \E k \in 1 .. Len(runs) :
          /\ runs[k].run.status = "rejected"
          /\ runs[k].file = file
          /\ Len(runs[k].run.boxes) < Len(boxes)

=============================================================================
